---- MODULE Spec2Model ----
(***************************************************************************)
(* Document chunking + embedding + storage pipeline of the Safety-AI       *)
(* repository.                                                             *)
(*                                                                         *)
(*   - createChunks of supabase/functions/process-docx/index.ts and the    *)
(*     createChunks of the storage-download variant of the same function,  *)
(*     src/unnamed/part_009 (createChunksStorage);                         *)
(*   - the two ingestion handlers that delete a document's rows of         *)
(*     document_embeddings and insert one row per chunk.                   *)
(*                                                                         *)
(* A text is a sequence of one-character strings.                          *)
(***************************************************************************)
EXTENDS Integers, Sequences, FiniteSets, Bags, TLC

(***************************************************************************)
(* Characters.                                                             *)
(***************************************************************************)
\* \s of the JavaScript regular expressions, restricted to the characters used.
IsWhitespace(c) == c \in {" ", "\n", "\t", "\r"}

\* [.!?] of the sentence regular expression.
IsTerminator(c) == c \in {".", "!", "?"}

\* [\x00-\x09\x0B-\x0C\x0E-\x1F\x7F-\x9F] of cleanText: the tab is in the
\* class, the newline (\x0A) and the carriage return (\x0D) are not.  "^A"
\* stands for the character U+0001, a control character that is not
\* whitespace.
IsControlChar(c) == c \in {"\t", "^A"}

Min(S) == CHOOSE x \in S : \A y \in S : x <= y
Max(S) == CHOOSE x \in S : \A y \in S : x >= y

(***************************************************************************)
(* String primitives of JavaScript used by the chunkers.                   *)
(***************************************************************************)
\* s.replace(/\s+/g, " "): every maximal run of whitespace becomes one space.
CollapseWhitespace(s) ==
  LET marked == [i \in 1..Len(s) |->
                   IF IsWhitespace(s[i])
                   THEN IF i > 1 /\ IsWhitespace(s[i-1]) THEN "drop" ELSE " "
                   ELSE s[i]]
      Keep(c) == c # "drop"
  IN SelectSeq(marked, Keep)

\* s.trim()
Trim(s) ==
  LET idx == {i \in 1..Len(s) : ~IsWhitespace(s[i])}
  IN IF idx = {} THEN <<>> ELSE SubSeq(s, Min(idx), Max(idx))

\* s.replace(/[\x00-\x09\x0B-\x0C\x0E-\x1F\x7F-\x9F]/g, "")
RemoveControlChars(s) ==
  LET Keep(c) == ~IsControlChar(c)
  IN SelectSeq(s, Keep)

\* cleanText of the storage variant: control characters removed, whitespace
\* collapsed, trimmed.
cleanText(s) == Trim(CollapseWhitespace(RemoveControlChars(s)))

\* paragraph.replace(/\s+/g, " ").trim() of process-docx.
CleanParagraph(s) == Trim(CollapseWhitespace(s))

\* First position p >= 1 where /\n\s*\n/ matches, 0 when there is none: a
\* newline followed, after whitespace only, by another newline.
SplitMatchStart(s) ==
  LET starts == {p \in 1..Len(s) :
                   /\ s[p] = "\n"
                   /\ \E q \in (p+1)..Len(s) :
                        /\ s[q] = "\n"
                        /\ \A k \in (p+1)..(q-1) : IsWhitespace(s[k])}
  IN IF starts = {} THEN 0 ELSE Min(starts)

\* Last position of the match that starts at p: \s* is greedy, so the match
\* ends at the last newline of the whitespace run that follows p.
SplitMatchEnd(s, p) ==
  Max({q \in (p+1)..Len(s) :
         /\ s[q] = "\n"
         /\ \A k \in (p+1)..(q-1) : IsWhitespace(s[k])})

\* text.split(/\n\s*\n/)
RECURSIVE SplitParagraphs(_)
SplitParagraphs(s) ==
  LET p == SplitMatchStart(s)
  IN IF p = 0 THEN <<s>>
     ELSE <<SubSeq(s, 1, p - 1)>>
            \o SplitParagraphs(SubSeq(s, SplitMatchEnd(s, p) + 1, Len(s)))

\* Start of the first match of /[^.!?]+[.!?]+/ at or after position from, 0
\* when there is none: the first non-terminator that is followed, after
\* non-terminators only, by a terminator.
SentenceStart(s, from) ==
  LET terms == {i \in from..Len(s) : IsTerminator(s[i])}
      starts == {i \in from..Len(s) :
                   ~IsTerminator(s[i]) /\ \E t \in terms : t > i}
  IN IF starts = {} THEN 0 ELSE Min(starts)

\* End of the match that starts at b: the non-terminator run, then the whole
\* terminator run (both quantifiers are greedy).
SentenceEnd(s, b) ==
  LET firstTerm == Min({i \in b..Len(s) : IsTerminator(s[i])})
      after == {i \in firstTerm..Len(s) : ~IsTerminator(s[i])}
  IN IF after = {} THEN Len(s) ELSE Min(after) - 1

\* The matches of s.match(/[^.!?]+[.!?]+/g) from position from on; the empty
\* sequence stands for null.
RECURSIVE MatchSentences(_, _)
MatchSentences(s, from) ==
  LET b == SentenceStart(s, from)
  IN IF b = 0 THEN <<>>
     ELSE LET e == SentenceEnd(s, b)
          IN <<SubSeq(s, b, e)>> \o MatchSentences(s, e + 1)

\* cleanParagraph.match(/[^.!?]+[.!?]+/g) || [cleanParagraph]
Sentences(cleanParagraph) ==
  LET m == MatchSentences(cleanParagraph, 1)
  IN IF m = <<>> THEN <<cleanParagraph>> ELSE m

\* parts.join(" ")
RECURSIVE Join(_)
Join(parts) ==
  IF parts = <<>> THEN <<>>
  ELSE IF Len(parts) = 1 THEN parts[1]
  ELSE parts[1] \o <<" ">> \o Join(Tail(parts))

(***************************************************************************)
(* createChunks.  The packing state is the triple of the function's        *)
(* locals; chunks holds the arrays that the code joins when it pushes      *)
(* them, and the join is applied on return.                                *)
(***************************************************************************)
DefaultMaxChunkLength == 1000

EmptyPacking == [chunks |-> <<>>, currentChunk |-> <<>>, currentLength |-> 0]

\* cleanParagraph.length > maxChunkLength: the paragraph goes to the
\* sentence fallback.
ExceedsLimitOff(length, maxChunkLength) == length >= maxChunkLength
ExceedsLimit(length, maxChunkLength) == length > maxChunkLength

\* currentLength + piece.length > maxChunkLength
OverflowsPieceOnly(currentLength, pieceLength, maxChunkLength) ==
  pieceLength > maxChunkLength
OverflowsAlways(currentLength, pieceLength, maxChunkLength) == TRUE
Overflows(currentLength, pieceLength, maxChunkLength) ==
  currentLength + pieceLength > maxChunkLength

\* if (overflow && currentChunk.length > 0) { chunks.push(currentChunk.join(" "));
\*   currentChunk = []; currentLength = 0 }
FlushNever(st, piece, maxChunkLength) == st
FlushIfOverflow(st, piece, maxChunkLength) ==
  IF Overflows(st.currentLength, Len(piece), maxChunkLength)
       /\ Len(st.currentChunk) > 0
  THEN [chunks |-> Append(st.chunks, st.currentChunk),
        currentChunk |-> <<>>, currentLength |-> 0]
  ELSE st

\* process-docx: currentChunk.push(piece); currentLength += piece.length + 1
AddPiece(st, piece, maxChunkLength) ==
  LET f == FlushIfOverflow(st, piece, maxChunkLength)
  IN [chunks |-> f.chunks,
      currentChunk |-> Append(f.currentChunk, piece),
      currentLength |-> f.currentLength + Len(piece) + 1]

\* storage variant: currentChunk.push(piece); currentLength += piece.length
AddPieceStorage(st, piece, maxChunkLength) ==
  LET f == FlushIfOverflow(st, piece, maxChunkLength)
  IN [chunks |-> f.chunks,
      currentChunk |-> Append(f.currentChunk, piece),
      currentLength |-> f.currentLength + Len(piece)]

\* process-docx: for (const sentence of sentences) { sentence.trim(); ... }
RECURSIVE PackSentences(_, _, _)
PackSentences(st, sentences, maxChunkLength) ==
  IF sentences = <<>> THEN st
  ELSE PackSentences(AddPiece(st, Trim(Head(sentences)), maxChunkLength),
                     Tail(sentences), maxChunkLength)

\* storage variant: for (const sentence of sentences) { cleanText(sentence); ... }
RECURSIVE PackSentencesStorage(_, _, _)
PackSentencesStorage(st, sentences, maxChunkLength) ==
  IF sentences = <<>> THEN st
  ELSE PackSentencesStorage(
         AddPieceStorage(st, cleanText(Head(sentences)), maxChunkLength),
         Tail(sentences), maxChunkLength)

\* process-docx: the body of for (const paragraph of paragraphs)
RECURSIVE PackParagraphs(_, _, _)
PackParagraphs(st, paragraphs, maxChunkLength) ==
  IF paragraphs = <<>> THEN st
  ELSE LET cleanParagraph == CleanParagraph(Head(paragraphs))
           next ==
             IF cleanParagraph = <<>> THEN st
             ELSE IF ExceedsLimit(Len(cleanParagraph), maxChunkLength)
             THEN PackSentences(st, Sentences(cleanParagraph), maxChunkLength)
             ELSE AddPiece(st, cleanParagraph, maxChunkLength)
       IN PackParagraphs(next, Tail(paragraphs), maxChunkLength)

\* storage variant: the body of for (const paragraph of paragraphs); an empty
\* paragraph is not skipped, it is pushed like any other.
RECURSIVE PackParagraphsStorage(_, _, _)
PackParagraphsStorage(st, paragraphs, maxChunkLength) ==
  IF paragraphs = <<>> THEN st
  ELSE LET cleanParagraph == cleanText(Head(paragraphs))
           next ==
             IF ExceedsLimit(Len(cleanParagraph), maxChunkLength)
             THEN PackSentencesStorage(st, Sentences(cleanParagraph),
                                       maxChunkLength)
             ELSE AddPieceStorage(st, cleanParagraph, maxChunkLength)
       IN PackParagraphsStorage(next, Tail(paragraphs), maxChunkLength)

\* if (currentChunk.length > 0) chunks.push(currentChunk.join(" "))
FinalFlush(st) ==
  IF Len(st.currentChunk) > 0 THEN Append(st.chunks, st.currentChunk)
  ELSE st.chunks

\* The arrays of pieces pushed by process-docx's createChunks, in order.
PackedGroups(text, maxChunkLength) ==
  FinalFlush(PackParagraphs(EmptyPacking, SplitParagraphs(text),
                            maxChunkLength))

\* The arrays of pieces pushed by the storage variant's createChunks.
PackedGroupsStorage(text, maxChunkLength) ==
  FinalFlush(PackParagraphsStorage(EmptyPacking, SplitParagraphs(text),
                                   maxChunkLength))

NonEmptyAny(s) == TRUE
NonEmpty(s) == Len(s) > 0

\* process-docx: chunks.filter((chunk) => chunk.length > 0).map((chunk) => chunk.trim())
createChunks(text, maxChunkLength) ==
  LET groups == PackedGroups(text, maxChunkLength)
      joined == [i \in 1..Len(groups) |-> Join(groups[i])]
      kept == SelectSeq(joined, NonEmpty)
  IN [i \in 1..Len(kept) |-> Trim(kept[i])]

\* storage variant: chunks.map((chunk) => cleanText(chunk)).filter((chunk) => chunk.length > 0)
createChunksStorage(text, maxChunkLength) ==
  LET groups == PackedGroupsStorage(text, maxChunkLength)
      cleaned == [i \in 1..Len(groups) |-> cleanText(Join(groups[i]))]
  IN SelectSeq(cleaned, NonEmpty)

(***************************************************************************)
(* The ingestion handlers.                                                 *)
(*                                                                         *)
(* "process-docx" receives {documentId, text} in the request body;         *)
(* "storage" (src/unnamed/part_009) receives {documentId, filePath} and    *)
(* downloads the text.  Both then delete the document's rows of            *)
(* document_embeddings and, chunk by chunk, await the embedding and await  *)
(* the insert of one row.  Every await is one step of a request.           *)
(***************************************************************************)
VARIABLES
  store,         \* table document_embeddings: a bag of rows
  is_processed,  \* table documents: the is_processed column, by document id
  pc,            \* by request: the await the handler is suspended at
  documentId,    \* by request: documentId of the body
  chunks,        \* by request: const chunks = createChunks(text)
  index,         \* by request: index of the for-of loop
  embedding,     \* by request: const embedding of the current iteration
  response,      \* by request: the Response returned
  before,        \* history: the document's rows when the request was received
  embedCalls,    \* by request: the createEmbedding calls issued so far
  cText,         \* createChunks applied on its own: the text argument
  cMax,          \* ... the maxChunkLength argument
  cPc,           \* ... "start", then "done"
  cVariant,      \* ... which createChunks was applied
  cGroups,       \* ... the arrays of pieces it pushed
  cResult,       \* ... the chunks it returned
  chatPc,        \* chat request: the await the handler is suspended at
  chatBody,      \* chat request: the JSON body (a missing field is absent)
  chatLocals,    \* chat request: the consts bound so far: questionEmbedding,
                 \*   matchResult (the rpc's result: data and error, absent
                 \*   when null, and the similarity the database computed
                 \*   for each stored vector), context, answer
  chatResponse,  \* chat request: the Response returned
  calls,         \* chat request: calls issued to each external service
  uploadPc,      \* upload request (process-document): the await it is at
  uploadLocals,  \* upload request: file and userId of the form, the portion
                 \*   counter i, allText, extractedText, documentData
  uploadResponse,    \* upload request: the Response returned
  component,     \* chat UI: which of the two chat components is mounted
  input,         \* chat UI: useState input
  isLoading,     \* chat UI: useState isLoading
  selectedDocument,  \* chat UI: useState selectedDocument
  messages,      \* chat UI: useState messages
  submitPc,      \* chat UI: by submit event, the position of handleSubmit
  submitLocals   \* chat UI: by submit event, userMessage and the
                 \*   selectedDocument of the render the handler closed over

ingestVars == <<store, is_processed, pc, documentId, chunks, index,
                embedding, response, before, embedCalls>>
chunkVars == <<cText, cMax, cPc, cVariant, cGroups, cResult>>
chatVars == <<chatPc, chatBody, chatLocals, chatResponse, calls>>
uploadVars == <<uploadPc, uploadLocals, uploadResponse>>
uiVars == <<component, input, isLoading, selectedDocument, messages,
            submitPc, submitLocals>>
vars == <<store, is_processed, pc, documentId, chunks, index,
          embedding, response, before, embedCalls, cText, cMax, cPc, cVariant,
          cGroups, cResult, chatPc, chatBody, chatLocals, chatResponse,
          calls, uploadPc, uploadLocals, uploadResponse, component, input,
          isLoading, selectedDocument, messages, submitPc, submitLocals>>

NumRequests == 2
Requests == 1..NumRequests
Documents == {"docA", "docB"}

None == "none"

\* A paragraph of n copies of the character c.
Paragraph(c, n) == [i \in 1..n |-> c]

\* Two paragraphs of this length do not fit one chunk of the default size.
LongParagraphLength == DefaultMaxChunkLength \div 2 + 1

TextOneChunk == <<"a", ".">>
TextTwoChunks ==
  Paragraph("a", LongParagraphLength) \o <<"\n", "\n">>
    \o Paragraph("b", LongParagraphLength)

\* The texts a request body or a downloaded file may hold.
BodyTexts == {<<>>, <<" ">>, TextOneChunk, TextTwoChunks}

\* const chunks = createChunks(text): maxChunkLength takes its default.  The
\* results for the texts of the model are tabulated once.
DocxChunks ==
  [text \in BodyTexts |-> createChunks(text, DefaultMaxChunkLength)]
StorageChunks ==
  [text \in BodyTexts |-> createChunksStorage(text, DefaultMaxChunkLength)]

\* createEmbedding: the embedding service is a function of the input text
\* (same text, same model, same vector); the vector is abstracted to the
\* pair of the text's first character and its length.
createEmbedding(text) == <<text[1], Len(text)>>

\* The object passed to .insert(...)
RowOneBased(d, chunk, emb, i) ==
  [document_id |-> d, content |-> chunk, embedding |-> emb,
   chunk_index |-> i + 1]
Row(d, chunk, emb, i) ==
  [document_id |-> d, content |-> chunk, embedding |-> emb, chunk_index |-> i]

\* .from("document_embeddings").delete().eq("document_id", d)
DeleteRowsNone(table, d) == table
DeleteRowsAll(table, d) == EmptyBag
DeleteRows(table, d) ==
  [row \in {x \in DOMAIN table : x.document_id # d} |-> table[row]]

\* The rows of document d, with their multiplicities.
DocRows(table, d) ==
  [row \in {x \in DOMAIN table : x.document_id = d} |-> table[row]]

\* The argument of createEmbedding in iteration index of the loop: chunk.
CurrentChunkFirst(r) == chunks[r][1]
CurrentChunk(r) == chunks[r][index[r] + 1]

InFlight == {"download", "delete", "embed", "insert", "update"}

OkResponse(n) == [status |-> 200, success |-> TRUE, chunksProcessed |-> n]
ErrorResponse == [status |-> 500, success |-> FALSE, chunksProcessed |-> 0]

InitIngest ==
  /\ store = EmptyBag
  /\ is_processed = [d \in Documents |-> FALSE]
  /\ pc = [r \in Requests |-> "idle"]
  /\ documentId = [r \in Requests |-> None]
  /\ chunks = [r \in Requests |-> <<>>]
  /\ index = [r \in Requests |-> 0]
  /\ embedding = [r \in Requests |-> None]
  /\ response = [r \in Requests |-> None]
  /\ before = [r \in Requests |-> EmptyBag]
  /\ embedCalls = [r \in Requests |-> 0]

InitChunkIdle ==
  /\ cText = <<>>
  /\ cMax = DefaultMaxChunkLength
  /\ cPc = "idle"
  /\ cVariant = None
  /\ cGroups = <<>>
  /\ cResult = <<>>

\* the external services a chat request calls
Services == {"embedding", "match", "answer"}

\* a record without fields: nothing received, nothing bound
NoFields == [name \in {} |-> name]

\* no Response has been returned (status 0)
NoResponse == [status |-> 0]

\* no chat request has been received
InitChatIdle ==
  /\ chatPc = "idle"
  /\ chatBody = NoFields
  /\ chatLocals = NoFields
  /\ chatResponse = NoResponse
  /\ calls = [s \in Services |-> 0]

\* no upload request has been received
InitUploadIdle ==
  /\ uploadPc = "idle"
  /\ uploadLocals = NoFields
  /\ uploadResponse = NoResponse

\* The submit events of the chat UI.
NumSubmits == 2
Submits == 1..NumSubmits

\* the chat component as mounted: empty input, not loading, no document
\* selected, no submit event yet
UiMounted ==
  /\ input = <<>>
  /\ isLoading = FALSE
  /\ selectedDocument = None
  /\ messages = <<>>
  /\ submitPc = [e \in Submits |-> "idle"]
  /\ submitLocals = [e \in Submits |-> NoFields]

InitUiIdle == component = "ChatSection" /\ UiMounted

Init ==
  InitIngest /\ InitChunkIdle /\ InitChatIdle /\ InitUploadIdle /\ InitUiIdle

\* catch (error) { return new Response(..., status: 500) }
Fail(r) ==
  /\ pc' = [pc EXCEPT ![r] = "failed"]
  /\ response' = [response EXCEPT ![r] = ErrorResponse]

\* process-docx: the body is read, validated and chunked; the handler then
\* awaits the delete.  d = None is a body without documentId.
ReceiveDocx(r, d, text) ==
  /\ pc[r] = "idle"
  /\ documentId' = [documentId EXCEPT ![r] = d]
  /\ before' = [before EXCEPT ![r] = DocRows(store, d)]
  /\ IF d = None \/ text = <<>>
     THEN /\ Fail(r)
          /\ UNCHANGED chunks
     ELSE /\ chunks' = [chunks EXCEPT ![r] = DocxChunks[text]]
          /\ pc' = [pc EXCEPT ![r] = "delete"]
          /\ UNCHANGED response
  /\ UNCHANGED <<store, is_processed, index, embedding>>
  /\ UNCHANGED embedCalls
  /\ UNCHANGED <<chunkVars, chatVars, uploadVars, uiVars>>

\* storage variant: the body is read; the handler awaits the download.
ReceiveStorage(r, d) ==
  /\ pc[r] = "idle"
  /\ documentId' = [documentId EXCEPT ![r] = d]
  /\ before' = [before EXCEPT ![r] = DocRows(store, d)]
  /\ pc' = [pc EXCEPT ![r] = "download"]
  /\ UNCHANGED <<store, is_processed, chunks, index, embedding, response>>
  /\ UNCHANGED embedCalls
  /\ UNCHANGED <<chunkVars, chatVars, uploadVars, uiVars>>

\* storage variant: the download returns the file, whose text is chunked.
Download(r, text) ==
  /\ pc[r] = "download"
  /\ chunks' = [chunks EXCEPT ![r] = StorageChunks[text]]
  /\ pc' = [pc EXCEPT ![r] = "delete"]
  /\ UNCHANGED <<store, is_processed, documentId, index, embedding,
                 response, before>>
  /\ UNCHANGED embedCalls
  /\ UNCHANGED <<chunkVars, chatVars, uploadVars, uiVars>>

\* storage variant: downloadError
DownloadFail(r) ==
  /\ pc[r] = "download"
  /\ Fail(r)
  /\ UNCHANGED <<store, is_processed, documentId, chunks, index,
                 embedding, before>>
  /\ UNCHANGED embedCalls
  /\ UNCHANGED <<chunkVars, chatVars, uploadVars, uiVars>>

\* The delete of the document's rows succeeds; the loop starts, or with no
\* chunk the handler goes on to the status update.
Delete(r) ==
  /\ pc[r] = "delete"
  /\ store' = DeleteRows(store, documentId[r])
  /\ index' = [index EXCEPT ![r] = 0]
  /\ pc' = [pc EXCEPT ![r] = IF Len(chunks[r]) = 0 THEN "update" ELSE "embed"]
  /\ UNCHANGED <<is_processed, documentId, chunks, embedding,
                 response, before>>
  /\ embedCalls' = [embedCalls EXCEPT
                      ![r] = IF Len(chunks[r]) = 0 THEN 0 ELSE 1]
  /\ UNCHANGED <<chunkVars, chatVars, uploadVars, uiVars>>

\* deleteError: throw
DeleteFail(r) ==
  /\ pc[r] = "delete"
  /\ Fail(r)
  /\ UNCHANGED <<store, is_processed, documentId, chunks, index,
                 embedding, before>>
  /\ UNCHANGED embedCalls
  /\ UNCHANGED <<chunkVars, chatVars, uploadVars, uiVars>>

\* const embedding = await createEmbedding(chunk)
Embed(r) ==
  /\ pc[r] = "embed"
  /\ embedding' = [embedding EXCEPT ![r] = createEmbedding(CurrentChunk(r))]
  /\ pc' = [pc EXCEPT ![r] = "insert"]
  /\ UNCHANGED <<store, is_processed, documentId, chunks, index,
                 response, before>>
  /\ UNCHANGED embedCalls
  /\ UNCHANGED <<chunkVars, chatVars, uploadVars, uiVars>>

\* createEmbedding throws (fetch fails or the response is not ok)
EmbedFailRetry(r) ==
  /\ pc[r] = "embed"
  /\ embedCalls' = [embedCalls EXCEPT ![r] = @ + 1]
  /\ UNCHANGED <<store, is_processed, pc, documentId, chunks, index,
                 embedding, response, before>>
  /\ UNCHANGED <<chunkVars, chatVars, uploadVars, uiVars>>
EmbedFail(r) ==
  /\ pc[r] = "embed"
  /\ Fail(r)
  /\ UNCHANGED <<store, is_processed, documentId, chunks, index,
                 embedding, before>>
  /\ UNCHANGED embedCalls
  /\ UNCHANGED <<chunkVars, chatVars, uploadVars, uiVars>>

\* The insert of the row succeeds; next iteration, or the loop ends.
Insert(r) ==
  /\ pc[r] = "insert"
  /\ store' = store (+) SetToBag({Row(documentId[r], CurrentChunk(r),
                                      embedding[r], index[r])})
  /\ index' = [index EXCEPT ![r] = index[r] + 1]
  /\ embedding' = [embedding EXCEPT ![r] = None]
  /\ pc' = [pc EXCEPT
              ![r] = IF index[r] + 1 < Len(chunks[r]) THEN "embed" ELSE "update"]
  /\ UNCHANGED <<is_processed, documentId, chunks, response, before>>
  /\ embedCalls' = [embedCalls EXCEPT
                      ![r] = IF index[r] + 1 < Len(chunks[r])
                             THEN embedCalls[r] + 1 ELSE embedCalls[r]]
  /\ UNCHANGED <<chunkVars, chatVars, uploadVars, uiVars>>

\* insertError: throw
InsertFail(r) ==
  /\ pc[r] = "insert"
  /\ Fail(r)
  /\ UNCHANGED <<store, is_processed, documentId, chunks, index,
                 embedding, before>>
  /\ UNCHANGED embedCalls
  /\ UNCHANGED <<chunkVars, chatVars, uploadVars, uiVars>>

\* The update of is_processed is awaited and its result is not looked at:
\* whether it was applied (ok) or not, the handler returns the 200 response.
UpdateStatus(r, ok) ==
  /\ pc[r] = "update"
  /\ is_processed' = IF ok THEN [is_processed EXCEPT ![documentId[r]] = TRUE]
                     ELSE is_processed
  /\ pc' = [pc EXCEPT ![r] = "done"]
  /\ response' = [response EXCEPT ![r] = OkResponse(Len(chunks[r]))]
  /\ UNCHANGED <<store, documentId, chunks, index, embedding, before>>
  /\ UNCHANGED embedCalls
  /\ UNCHANGED <<chunkVars, chatVars, uploadVars, uiVars>>

\* The request is cancelled or its worker stops while suspended at an await:
\* nothing more of the handler runs, the catch block included.
Stop(r) ==
  /\ pc[r] \in InFlight
  /\ pc' = [pc EXCEPT ![r] = "stopped"]
  /\ UNCHANGED <<store, is_processed, documentId, chunks, index,
                 embedding, response, before>>
  /\ UNCHANGED embedCalls
  /\ UNCHANGED <<chunkVars, chatVars, uploadVars, uiVars>>

\* The steps of a request after it was received.
Step(r) ==
  \/ \E text \in BodyTexts : Download(r, text)
  \/ DownloadFail(r)
  \/ Delete(r)
  \/ DeleteFail(r)
  \/ Embed(r)
  \/ EmbedFail(r)
  \/ Insert(r)
  \/ InsertFail(r)
  \/ \E ok \in BOOLEAN : UpdateStatus(r, ok)
  \/ Stop(r)

\* Nothing serializes the requests: any number may be in flight.
Next ==
  \/ \E r \in Requests, d \in Documents \cup {None}, text \in BodyTexts :
       ReceiveDocx(r, d, text)
  \/ \E r \in Requests, d \in Documents : ReceiveStorage(r, d)
  \/ \E r \in Requests : Step(r)

Spec == Init /\ [][Next]_vars

\* No request on document d is in flight.
NoneInFlight(d) ==
  \A r \in Requests : pc[r] \in InFlight => documentId[r] # d

\* The requests on one document run one at a time (requests on different
\* documents still overlap).
ReceiveDocxSeq(r, d, text) == NoneInFlight(d) /\ ReceiveDocx(r, d, text)

ReceiveStorageSeq(r, d) == NoneInFlight(d) /\ ReceiveStorage(r, d)

NextSeq ==
  \/ \E r \in Requests, d \in Documents \cup {None}, text \in BodyTexts :
       ReceiveDocxSeq(r, d, text)
  \/ \E r \in Requests, d \in Documents : ReceiveStorageSeq(r, d)
  \/ \E r \in Requests : Step(r)

SpecSeq == Init /\ [][NextSeq]_vars

(***************************************************************************)
(* The chat function: one request, from the receipt of its body to its     *)
(* response.  The handler suspends at three awaits: the embedding of the   *)
(* question, the rpc match_document_sections and the chat completion.      *)
(***************************************************************************)
\* match_threshold: 0.7, in hundredths
MatchThreshold == 70
\* match_count: 5
MatchCount == 5

\* The similarities the database may compute for a stored vector, in
\* hundredths: below the threshold, equal to it, above it.
Scores == {30, 70, 90}

\* The vectors stored for document d.
StoredEmbeddings(table, d) ==
  {row.embedding : row \in {x \in DOMAIN table : x.document_id = d}}

\* The arguments of supabaseClient.rpc("match_document_sections", {...})
MatchArgumentsOneMore ==
  [query_embedding |-> chatLocals.questionEmbedding,
   document_id |-> chatBody.documentId,
   match_threshold |-> MatchThreshold, match_count |-> MatchCount + 1]
MatchArguments ==
  [query_embedding |-> chatLocals.questionEmbedding,
   document_id |-> chatBody.documentId,
   match_threshold |-> MatchThreshold, match_count |-> MatchCount]

\* The rows of the document whose similarity reaches the threshold.
Candidates(table, sim, args) ==
  [row \in {x \in DOMAIN table : /\ x.document_id = args.document_id
                                 /\ sim[x.embedding] >= args.match_threshold}
     |-> table[row]]

\* row a is ranked no later than row b: similarity descending, then chunk
\* index ascending
RankedBefore(a, b, sim) ==
  \/ sim[a.embedding] > sim[b.embedding]
  \/ /\ sim[a.embedding] = sim[b.embedding]
     /\ a.chunk_index <= b.chunk_index

\* A returned match: the chunk and its similarity.
Match(row, sim) ==
  [document_id |-> row.document_id, chunk_index |-> row.chunk_index,
   content |-> row.content, similarity |-> sim[row.embedding]]

\* The first n rows of the bag, in rank order.
RECURSIVE Ranked(_, _, _)
Ranked(bag, sim, n) ==
  IF n = 0 \/ DOMAIN bag = {} THEN <<>>
  ELSE LET best == CHOOSE a \in DOMAIN bag :
                     \A b \in DOMAIN bag : RankedBefore(a, b, sim)
       IN <<Match(best, sim)>> \o Ranked(bag (-) SetToBag({best}), sim, n - 1)

\* The stored procedure match_document_sections(query_embedding,
\* document_id, match_threshold, match_count).
match_document_sections(table, sim, args) ==
  Ranked(Candidates(table, sim, args), sim, args.match_count)

\* if (matchError) throw matchError
MatchFailed(result) == "error" \in DOMAIN result

\* chunks || []
ChunksOrEmpty(result) ==
  IF "data" \in DOMAIN result THEN result.data ELSE <<>>

\* parts.join(sep)
RECURSIVE JoinWith(_, _)
JoinWith(parts, sep) ==
  IF parts = <<>> THEN <<>>
  ELSE IF Len(parts) = 1 THEN parts[1]
  ELSE parts[1] \o sep \o JoinWith(Tail(parts), sep)

\* const context = (chunks || []).map((chunk) => chunk.content).join("\n\n")
AssembleContextSpaced(result) ==
  LET rows == ChunksOrEmpty(result)
  IN JoinWith([i \in 1..Len(rows) |-> rows[i].content], <<" ">>)
AssembleContext(result) ==
  LET rows == ChunksOrEmpty(result)
  IN JoinWith([i \in 1..Len(rows) |-> rows[i].content], <<"\n", "\n">>)

\* chunks?.length || 0
ChunksFound(result) == Len(ChunksOrEmpty(result))

\* The bodies a chat request may carry: question empty or present, either
\* field missing or present.
ChatQuestions == {<<>>, <<"a", "?">>}
ChatBodies ==
  {[question |-> q, documentId |-> d] : q \in ChatQuestions, d \in Documents}
    \cup {[question |-> q] : q \in ChatQuestions}
    \cup {[documentId |-> d] : d \in Documents}

\* !question || !documentId
InvalidBodyQuestionUnchecked(body) == "documentId" \notin DOMAIN body
InvalidBody(body) ==
  \/ "question" \notin DOMAIN body
  \/ body.question = <<>>
  \/ "documentId" \notin DOMAIN body

\* What the chat completion may answer.
AnswerTexts == {<<"o", "k">>}

\* new Response(JSON.stringify({ response, debug: { chunksFound } }),
\*              { status: 200 })
ChatOkResponse(text, result) ==
  [status |-> 200, response |-> text,
   debug |-> [chunksFound |-> ChunksFound(result)]]
\* new Response(JSON.stringify({ error: error.message, ... }), { status: 500 })
ChatErrorResponse(message) == [status |-> 500, error |-> message]

\* catch (error): the request ends with the error response
ChatFail(message) ==
  /\ chatPc' = "failed"
  /\ chatResponse' = ChatErrorResponse(message)

\* const { question, documentId } = await req.json(); validation; then
\* getEmbedding(question) issues its fetch
ChatReceive(body) ==
  /\ chatPc = "idle"
  /\ chatBody' = body
  /\ IF InvalidBody(body)
     THEN /\ ChatFail("Question and documentId are required")
          /\ UNCHANGED calls
     ELSE /\ chatPc' = "embedding"
          /\ calls' = [calls EXCEPT !["embedding"] = @ + 1]
          /\ UNCHANGED chatResponse
  /\ UNCHANGED chatLocals
  /\ UNCHANGED <<ingestVars, chunkVars, uploadVars, uiVars>>

\* getEmbedding returns data.data[0].embedding; the rpc is issued
ChatEmbedStoring ==
  /\ chatPc = "embedding"
  /\ chatLocals' =
       chatLocals @@ [questionEmbedding |-> createEmbedding(chatBody.question)]
  /\ chatPc' = "matching"
  /\ calls' = [calls EXCEPT !["match"] = @ + 1]
  /\ store' = store (+) SetToBag({Row(chatBody.documentId, chatBody.question,
                                      createEmbedding(chatBody.question), 0)})
  /\ UNCHANGED <<chatBody, chatResponse>>
  /\ UNCHANGED <<is_processed, pc, documentId, chunks, index, embedding,
                 response, before, embedCalls, chunkVars, uploadVars,
                 uiVars>>
ChatEmbed ==
  /\ chatPc = "embedding"
  /\ chatLocals' =
       chatLocals @@ [questionEmbedding |-> createEmbedding(chatBody.question)]
  /\ chatPc' = "matching"
  /\ calls' = [calls EXCEPT !["match"] = @ + 1]
  /\ UNCHANGED <<chatBody, chatResponse>>
  /\ UNCHANGED <<ingestVars, chunkVars, uploadVars, uiVars>>

\* getEmbedding throws (no key, fetch error, !response.ok)
ChatEmbedFailSwallowed ==
  /\ chatPc = "embedding"
  /\ chatPc' = "matching"
  /\ calls' = [calls EXCEPT !["match"] = @ + 1]
  /\ UNCHANGED <<chatBody, chatLocals, chatResponse>>
  /\ UNCHANGED <<ingestVars, chunkVars, uploadVars, uiVars>>
ChatEmbedFail ==
  /\ chatPc = "embedding"
  /\ ChatFail("OpenAI API error")
  /\ UNCHANGED <<chatBody, chatLocals, calls>>
  /\ UNCHANGED <<ingestVars, chunkVars, uploadVars, uiVars>>

\* What the rpc may resolve to: the matches for the similarities the
\* database computed (null in place of an empty list included), or an error.
MatchOutcomes ==
  LET sims == [StoredEmbeddings(store, chatBody.documentId) -> Scores]
      found(sim) == match_document_sections(store, sim, MatchArguments)
  IN {[similarity |-> sim, data |-> found(sim)] : sim \in sims}
       \cup {[similarity |-> sim] : sim \in {x \in sims : found(x) = <<>>}}
       \cup {[error |-> "match error"]}

\* const { data: chunks, error: matchError } = await rpc(...); the context
\* is assembled and the chat completion is requested
ChatMatchFailingOnEmpty(result) ==
  /\ chatPc = "matching"
  /\ IF MatchFailed(result) \/ ChunksOrEmpty(result) = <<>>
     THEN /\ ChatFail("no match")
          /\ chatLocals' = chatLocals @@ [matchResult |-> result]
          /\ UNCHANGED calls
     ELSE /\ chatLocals' =
               chatLocals @@ [matchResult |-> result,
                              context |-> AssembleContext(result)]
          /\ chatPc' = "answering"
          /\ calls' = [calls EXCEPT !["answer"] = @ + 1]
          /\ UNCHANGED chatResponse
  /\ UNCHANGED chatBody
  /\ UNCHANGED <<ingestVars, chunkVars, uploadVars, uiVars>>
ChatMatch(result) ==
  /\ chatPc = "matching"
  /\ IF MatchFailed(result)
     THEN /\ ChatFail(result.error)
          /\ chatLocals' = chatLocals @@ [matchResult |-> result]
          /\ UNCHANGED calls
     ELSE /\ chatLocals' =
               chatLocals @@ [matchResult |-> result,
                              context |-> AssembleContext(result)]
          /\ chatPc' = "answering"
          /\ calls' = [calls EXCEPT !["answer"] = @ + 1]
          /\ UNCHANGED chatResponse
  /\ UNCHANGED chatBody
  /\ UNCHANGED <<ingestVars, chunkVars, uploadVars, uiVars>>

\* response.ok: the success response carries data.choices[0].message.content
ChatAnswer(text) ==
  /\ chatPc = "answering"
  /\ chatLocals' = chatLocals @@ [answer |-> text]
  /\ chatResponse' = ChatOkResponse(text, chatLocals.matchResult)
  /\ chatPc' = "done"
  /\ UNCHANGED <<chatBody, calls>>
  /\ UNCHANGED <<ingestVars, chunkVars, uploadVars, uiVars>>

\* !response.ok: throw new Error(`OpenAI API error: ...`)
ChatAnswerFailSilent ==
  /\ chatPc = "answering"
  /\ chatResponse' = ChatOkResponse(<<>>, chatLocals.matchResult)
  /\ chatPc' = "done"
  /\ UNCHANGED <<chatBody, chatLocals, calls>>
  /\ UNCHANGED <<ingestVars, chunkVars, uploadVars, uiVars>>
ChatAnswerFail ==
  /\ chatPc = "answering"
  /\ ChatFail("OpenAI API error")
  /\ UNCHANGED <<chatBody, chatLocals, calls>>
  /\ UNCHANGED <<ingestVars, chunkVars, uploadVars, uiVars>>

NextChat ==
  \/ \E body \in ChatBodies : ChatReceive(body)
  \/ ChatEmbed
  \/ ChatEmbedFail
  \/ chatPc = "matching" /\ \E result \in MatchOutcomes : ChatMatch(result)
  \/ \E text \in AnswerTexts : ChatAnswer(text)
  \/ ChatAnswerFail

\* A document of one paragraph more than a match may return, each paragraph
\* a chunk of its own.
TextSixChunks ==
  JoinWith([i \in 1..(MatchCount + 1) |->
              Paragraph(<<"a", "b", "c", "d", "e", "f">>[i],
                        LongParagraphLength)],
           <<"\n", "\n">>)

\* The rows a completed ingestion of the text leaves for document d.
StoredRows(d, text) ==
  LET list == createChunks(text, DefaultMaxChunkLength)
  IN SetToBag({Row(d, list[i], createEmbedding(list[i]), i - 1) :
                 i \in 1..Len(list)})

\* The store the chat requests are asked against: both documents processed.
ChatStore ==
  StoredRows("docA", TextSixChunks) (+) StoredRows("docB", TextOneChunk)

InitChat ==
  /\ store = ChatStore
  /\ is_processed = [d \in Documents |-> TRUE]
  /\ pc = [r \in Requests |-> "idle"]
  /\ documentId = [r \in Requests |-> None]
  /\ chunks = [r \in Requests |-> <<>>]
  /\ index = [r \in Requests |-> 0]
  /\ embedding = [r \in Requests |-> None]
  /\ response = [r \in Requests |-> None]
  /\ before = [r \in Requests |-> EmptyBag]
  /\ embedCalls = [r \in Requests |-> 0]
  /\ InitChunkIdle
  /\ InitChatIdle
  /\ InitUploadIdle
  /\ InitUiIdle

SpecChat == InitChat /\ [][NextChat]_vars

\* Ingestion and chat in one run: the run serves ingestion requests, one at
\* a time per document, or it serves a chat request.
IngestionStep == chatPc = "idle" /\ NextSeq
ChatStep == (\A r \in Requests : pc[r] = "idle") /\ NextChat
NextPipeline == IngestionStep \/ ChatStep

SpecPipeline == Init /\ [][NextPipeline]_vars

(***************************************************************************)
(* The upload function (process-document): one request, from its form to   *)
(* its response.  The file is stored, a PDF is sent in portions to the chat *)
(* completion for text extraction, the document row is inserted and the    *)
(* extracted text is inserted into document_embeddings.                    *)
(***************************************************************************)
\* The portions (of 250 KB) a PDF may have.
MaxPortions == 2

\* The files of the form: PDFs by their number of portions, and a file of
\* another type.
Files ==
  {[type |-> "application/pdf", portions |-> n] : n \in 0..MaxPortions}
    \cup {[type |-> "text/plain", portions |-> 1]}

\* What formData may hold: file and userId, or one of them only.
UploadForms ==
  {[file |-> f, userId |-> "user"] : f \in Files}
    \cup {[file |-> f] : f \in Files}
    \cup {[userId |-> "user"]}

\* data.choices[0].message.content for one portion
PortionTexts == {<<>>, <<" ">>, <<"a", ".">>, <<"b", ".", "\n">>}

\* documentData.id of the inserted documents row
NewDocument == "docNew"

\* .from('document_embeddings').insert({ document_id, content })
TextRow(d, text) == [document_id |-> d, content |-> text]

\* new Response(JSON.stringify({ success: true, ..., documentId,
\*              extractedText })): the status is the default, 200
UploadOkResponse(d, text) ==
  [status |-> 200, success |-> TRUE, documentId |-> d, extractedText |-> text]

\* catch (error): { error: error.message }, status 500
UploadFail(message) ==
  /\ uploadPc' = "failed"
  /\ uploadResponse' = [status |-> 500, error |-> message]

\* formData is read and validated; the upload to Storage is issued
UploadReceive(form) ==
  /\ uploadPc = "idle"
  /\ uploadLocals' = form
  /\ IF "file" \notin DOMAIN form \/ "userId" \notin DOMAIN form
     THEN UploadFail("File and userId are required")
     ELSE /\ uploadPc' = "upload"
          /\ UNCHANGED uploadResponse
  /\ UNCHANGED <<ingestVars, chunkVars, chatVars, uiVars>>

\* the file is stored; a PDF with a portion goes to the extraction loop,
\* every other file keeps extractedText = '' and the documents row is
\* inserted
UploadStored ==
  /\ uploadPc = "upload"
  /\ IF uploadLocals.file.type = "application/pdf"
     THEN IF uploadLocals.file.portions > 0
          THEN /\ uploadLocals' = uploadLocals @@ [i |-> 0, allText |-> <<>>]
               /\ uploadPc' = "extract"
          ELSE /\ uploadLocals' = uploadLocals @@ [extractedText |-> <<>>]
               /\ uploadPc' = "document"
     ELSE /\ uploadLocals' = uploadLocals @@ [extractedText |-> <<>>]
          /\ uploadPc' = "document"
  /\ UNCHANGED uploadResponse
  /\ UNCHANGED <<ingestVars, chunkVars, chatVars, uiVars>>

\* uploadError
UploadStoreFail ==
  /\ uploadPc = "upload"
  /\ UploadFail("Upload failed")
  /\ UNCHANGED uploadLocals
  /\ UNCHANGED <<ingestVars, chunkVars, chatVars, uiVars>>

\* one iteration of the extraction loop: allText += content + '\n'; after
\* the last portion extractedText = allText.trim()
ExtractPortion(content) ==
  /\ uploadPc = "extract"
  /\ LET all == uploadLocals.allText \o content \o <<"\n">>
         next == uploadLocals.i + 1
     IN IF next < uploadLocals.file.portions
        THEN /\ uploadLocals' =
                  [uploadLocals EXCEPT !.i = next, !.allText = all]
             /\ UNCHANGED uploadPc
        ELSE /\ uploadLocals' =
                  [uploadLocals EXCEPT !.i = next, !.allText = all]
                    @@ [extractedText |-> Trim(all)]
             /\ uploadPc' = "document"
  /\ UNCHANGED uploadResponse
  /\ UNCHANGED <<ingestVars, chunkVars, chatVars, uiVars>>

\* !response.ok in the loop: throw, rethrown as "Failed to process PDF"
ExtractFail ==
  /\ uploadPc = "extract"
  /\ UploadFail("Failed to process PDF")
  /\ UNCHANGED uploadLocals
  /\ UNCHANGED <<ingestVars, chunkVars, chatVars, uiVars>>

\* the documents row is inserted; with a non-empty extractedText the insert
\* into document_embeddings is issued, else the success response is returned
InsertDocument ==
  /\ uploadPc = "document"
  /\ uploadLocals' = uploadLocals @@ [documentData |-> [id |-> NewDocument]]
  /\ IF Len(uploadLocals.extractedText) > 0
     THEN /\ uploadPc' = "embeddings"
          /\ UNCHANGED uploadResponse
     ELSE /\ uploadPc' = "done"
          /\ uploadResponse' =
               UploadOkResponse(NewDocument, uploadLocals.extractedText)
  /\ UNCHANGED <<ingestVars, chunkVars, chatVars, uiVars>>

\* documentError
InsertDocumentFail ==
  /\ uploadPc = "document"
  /\ UploadFail("Database insert failed")
  /\ UNCHANGED uploadLocals
  /\ UNCHANGED <<ingestVars, chunkVars, chatVars, uiVars>>

\* the insert into document_embeddings returns: with an error the row is
\* not stored and the error is logged; the success response follows
InsertText(ok) ==
  /\ uploadPc = "embeddings"
  /\ store' = IF ok
              THEN store (+) SetToBag({TextRow(uploadLocals.documentData.id,
                                               uploadLocals.extractedText)})
              ELSE store
  /\ uploadPc' = "done"
  /\ uploadResponse' =
       UploadOkResponse(uploadLocals.documentData.id,
                        uploadLocals.extractedText)
  /\ UNCHANGED uploadLocals
  /\ UNCHANGED <<is_processed, pc, documentId, chunks, index, embedding,
                 response, before, embedCalls>>
  /\ UNCHANGED <<chunkVars, chatVars, uiVars>>

NextUpload ==
  \/ \E form \in UploadForms : UploadReceive(form)
  \/ UploadStored
  \/ UploadStoreFail
  \/ \E content \in PortionTexts : ExtractPortion(content)
  \/ ExtractFail
  \/ InsertDocument
  \/ InsertDocumentFail
  \/ \E ok \in BOOLEAN : InsertText(ok)

SpecUpload == Init /\ [][NextUpload]_vars

(***************************************************************************)
(* The chat form of the dashboard: ChatSection.tsx and the earlier version *)
(* of the component (part_005).  A state update of React is taken as       *)
(* rendered before the next event is handled.                              *)
(***************************************************************************)
Components == {"ChatSection", "part_005"}

\* what the user can have typed into the input
InputTexts == {<<>>, <<" ">>, <<"a", " ">>}

AnswerContent == <<"o", "k">>
ApologyContent == <<"s", "o", "r", "r", "y">>

Message(role, content) == [role |-> role, content |-> content]

\* <Input disabled={isLoading || !selectedDocument}>, the same on the Button
FormDisabled == isLoading \/ selectedDocument = None

\* if (!input.trim() || isLoading || !selectedDocument) return;
SubmitGuard == Trim(input) = <<>> \/ isLoading \/ selectedDocument = None

\* onValueChange={(value) => setSelectedDocument(value)}
SelectDocument(d) ==
  /\ selectedDocument' = d
  /\ UNCHANGED <<component, input, isLoading, messages, submitPc,
                 submitLocals>>
  /\ UNCHANGED <<ingestVars, chunkVars, chatVars, uploadVars>>

\* onChange={(e) => setInput(e.target.value)}, on an input that is enabled
TypeInput(text) ==
  /\ ~FormDisabled
  /\ input' = text
  /\ UNCHANGED <<component, isLoading, selectedDocument, messages, submitPc,
                 submitLocals>>
  /\ UNCHANGED <<ingestVars, chunkVars, chatVars, uploadVars>>

\* the submit events happen in their order
NextSubmit(e) ==
  /\ submitPc[e] = "idle"
  /\ \A f \in Submits : f < e => submitPc[f] # "idle"

\* handleSubmit returns at its guard
SubmitIgnored(e) ==
  /\ NextSubmit(e)
  /\ SubmitGuard
  /\ submitPc' = [submitPc EXCEPT ![e] = "returned"]
  /\ UNCHANGED <<component, input, isLoading, selectedDocument, messages,
                 submitLocals>>
  /\ UNCHANGED <<ingestVars, chunkVars, chatVars, uploadVars>>

\* handleSubmit passes its guard and runs to its first await: getSession in
\* ChatSection, the fetch in part_005 (which has set isLoading by then)
Submit(e) ==
  /\ NextSubmit(e)
  /\ ~SubmitGuard
  /\ input' = <<>>
  /\ submitLocals' = [submitLocals EXCEPT ![e] =
                        [userMessage |-> Trim(input),
                         selectedDocument |-> selectedDocument]]
  /\ IF component = "ChatSection"
       THEN /\ submitPc' = [submitPc EXCEPT ![e] = "session"]
            /\ UNCHANGED <<isLoading, messages>>
       ELSE /\ messages' = Append(messages,
                                  Message("user", Trim(input)))
            /\ isLoading' = TRUE
            /\ submitPc' = [submitPc EXCEPT ![e] = "fetch"]
  /\ UNCHANGED <<component, selectedDocument>>
  /\ UNCHANGED <<ingestVars, chunkVars, chatVars, uploadVars>>

\* ChatSection: getSession returns a session; the user message is added and
\* saveChatMessage is awaited
SessionReturned(e) ==
  /\ submitPc[e] = "session"
  /\ messages' = Append(messages,
                        Message("user", submitLocals[e].userMessage))
  /\ submitPc' = [submitPc EXCEPT ![e] = "save"]
  /\ UNCHANGED <<component, input, isLoading, selectedDocument, submitLocals>>
  /\ UNCHANGED <<ingestVars, chunkVars, chatVars, uploadVars>>

\* ChatSection: if (!session) return;
SessionMissing(e) ==
  /\ submitPc[e] = "session"
  /\ submitPc' = [submitPc EXCEPT ![e] = "returned"]
  /\ UNCHANGED <<component, input, isLoading, selectedDocument, messages,
                 submitLocals>>
  /\ UNCHANGED <<ingestVars, chunkVars, chatVars, uploadVars>>

\* ChatSection: saveChatMessage has returned (it catches its own errors);
\* setIsLoading(true) and the fetch of the chat function
MessageSaved(e) ==
  /\ submitPc[e] = "save"
  /\ isLoading' = TRUE
  /\ submitPc' = [submitPc EXCEPT ![e] = "fetch"]
  /\ UNCHANGED <<component, input, selectedDocument, messages, submitLocals>>
  /\ UNCHANGED <<ingestVars, chunkVars, chatVars, uploadVars>>

\* the response (ok) or the error is handled: the assistant message or the
\* apology is added; part_005 runs on into finally, ChatSection awaits
\* saveChatMessage first
ResponseHandled(e, ok) ==
  /\ submitPc[e] = "fetch"
  /\ messages' = Append(messages,
                        Message("assistant",
                                IF ok THEN AnswerContent ELSE ApologyContent))
  /\ IF component = "ChatSection"
       THEN /\ submitPc' = [submitPc EXCEPT ![e] = "saveAnswer"]
            /\ UNCHANGED isLoading
       ELSE /\ submitPc' = [submitPc EXCEPT ![e] = "finished"]
            /\ isLoading' = FALSE
  /\ UNCHANGED <<component, input, selectedDocument, submitLocals>>
  /\ UNCHANGED <<ingestVars, chunkVars, chatVars, uploadVars>>

\* ChatSection: finally { setIsLoading(false) }
AnswerSaved(e) ==
  /\ submitPc[e] = "saveAnswer"
  /\ isLoading' = FALSE
  /\ submitPc' = [submitPc EXCEPT ![e] = "finished"]
  /\ UNCHANGED <<component, input, selectedDocument, messages, submitLocals>>
  /\ UNCHANGED <<ingestVars, chunkVars, chatVars, uploadVars>>

NextUi ==
  \/ \E d \in Documents : SelectDocument(d)
  \/ \E text \in InputTexts : TypeInput(text)
  \/ \E e \in Submits : SubmitIgnored(e)
  \/ \E e \in Submits : Submit(e)
  \/ \E e \in Submits : SessionReturned(e)
  \/ \E e \in Submits : SessionMissing(e)
  \/ \E e \in Submits : MessageSaved(e)
  \/ \E e \in Submits : \E ok \in BOOLEAN : ResponseHandled(e, ok)
  \/ \E e \in Submits : AnswerSaved(e)

InitUi ==
  /\ InitIngest /\ InitChunkIdle /\ InitChatIdle /\ InitUploadIdle
  /\ component \in Components
  /\ UiMounted

SpecUi == InitUi /\ [][NextUi]_vars

(***************************************************************************)
(* createChunks applied on its own, to every text over a small alphabet    *)
(* and to the two-paragraph example text.                                  *)
(***************************************************************************)
MaxTextLength == 5
MaxLimit == 4

Alphabet == {"a", ".", " ", "\n", "\t", "^A"}
SmallTexts == UNION {[1..n -> Alphabet] : n \in 0..MaxTextLength}

ExampleText ==
  <<
  "P", "a", "r", "a", "g", "r", "a", "p", "h", " ", "o", "n", "e", ".",
  "\n", "\n", "P", "a", "r", "a", "g", "r", "a", "p", "h", " ", "t", "w",
  "o", " ", "i", "s", " ", "m", "u", "c", "h", " ", "l", "o", "n", "g",
  "e", "r", " ", "t", "h", "a", "n", " ", "t", "h", "e", " ", "l", "i",
  "m", "i", "t", " ", "a", "n", "d", " ", "s", "h", "o", "u", "l", "d",
  " ", "b", "e", " ", "s", "p", "l", "i", "t", " ", "i", "n", "t", "o",
  " ", "s", "e", "n", "t", "e", "n", "c", "e", "s", ".", " ", "I", "t",
  " ", "h", "a", "s", " ", "t", "h", "r", "e", "e", " ", "s", "e", "n",
  "t", "e", "n", "c", "e", "s", ".", " ", "H", "e", "r", "e", " ", "i",
  "s", " ", "t", "h", "e", " ", "t", "h", "i", "r", "d", "." >>

ExampleParagraphOne ==
  <<
  "P", "a", "r", "a", "g", "r", "a", "p", "h", " ", "o", "n", "e", "." >>

ExampleSentenceOne ==
  <<
  "P", "a", "r", "a", "g", "r", "a", "p", "h", " ", "t", "w", "o", " ",
  "i", "s", " ", "m", "u", "c", "h", " ", "l", "o", "n", "g", "e", "r",
  " ", "t", "h", "a", "n", " ", "t", "h", "e", " ", "l", "i", "m", "i",
  "t", " ", "a", "n", "d", " ", "s", "h", "o", "u", "l", "d", " ", "b",
  "e", " ", "s", "p", "l", "i", "t", " ", "i", "n", "t", "o", " ", "s",
  "e", "n", "t", "e", "n", "c", "e", "s", "." >>

ExampleSentenceTwo ==
  <<
  "I", "t", " ", "h", "a", "s", " ", "t", "h", "r", "e", "e", " ", "s",
  "e", "n", "t", "e", "n", "c", "e", "s", "." >>

ExampleSentenceThree ==
  <<
  "H", "e", "r", "e", " ", "i", "s", " ", "t", "h", "e", " ", "t", "h",
  "i", "r", "d", "." >>

\* Three one-character paragraphs: the shortest text with a chunk of two
\* pieces followed by another chunk.
ThreeParagraphs == <<"a", "\n", "\n", "b", "\n", "\n", "c">>

InitChunk ==
  /\ InitIngest
  /\ InitChatIdle
  /\ InitUploadIdle
  /\ InitUiIdle
  /\ \/ cText \in SmallTexts /\ cMax \in 1..MaxLimit
     \/ cText = ExampleText /\ cMax = 40
     \/ cText = ThreeParagraphs /\ cMax \in 1..MaxLimit
  /\ cPc = "start"
  /\ cVariant = None
  /\ cGroups = <<>>
  /\ cResult = <<>>

\* createChunks(cText, cMax) of process-docx
ApplyDocx ==
  /\ cPc = "start"
  /\ cPc' = "done"
  /\ cVariant' = "process-docx"
  /\ cGroups' = PackedGroups(cText, cMax)
  /\ cResult' = createChunks(cText, cMax)
  /\ UNCHANGED <<cText, cMax>>
  /\ UNCHANGED <<ingestVars, chatVars, uploadVars, uiVars>>

\* createChunks(cText, cMax) of the storage variant
ApplyStorage ==
  /\ cPc = "start"
  /\ cPc' = "done"
  /\ cVariant' = "storage"
  /\ cGroups' = PackedGroupsStorage(cText, cMax)
  /\ cResult' = createChunksStorage(cText, cMax)
  /\ UNCHANGED <<cText, cMax>>
  /\ UNCHANGED <<ingestVars, chatVars, uploadVars, uiVars>>

NextChunk == ApplyDocx \/ ApplyStorage

SpecChunk == InitChunk /\ [][NextChunk]_vars

(***************************************************************************)
(* Properties of the ingestion handlers.                                   *)
(***************************************************************************)
\* The complete chunk set of request r: one row per chunk of its chunk list,
\* with indices 0..n-1, each with the embedding of its own text.
NewRows(r) ==
  SetToBag({[document_id |-> documentId[r],
             content |-> chunks[r][i],
             embedding |-> createEmbedding(chunks[r][i]),
             chunk_index |-> i - 1] : i \in 1..Len(chunks[r])})

\* Request r ends with the error response in this step.
Fails(r) == pc[r] # "failed" /\ pc'[r] = "failed"

\* Request r returns its success response in this step.
Completes(r) == pc[r] = "update" /\ pc'[r] = "done"

\* C1: when an ingestion request fails at any step (delete, embedding of a
\* chunk, insert of a chunk), the document's stored rows are, after the
\* request, exactly the rows stored when the request started.
C1_FailureLeavesStoreUnchanged ==
  [][\A r \in Requests :
       Fails(r) => DocRows(store', documentId'[r]) = before'[r]]_vars

\* C2: once two requests on the same document have both finished
\* successfully, overlapping or not, the document's stored rows are exactly
\* the complete chunk set of one of the two: no index twice, no mixture.
C2_OverlapSerialized ==
  \A r1, r2 \in Requests :
    ( /\ r1 # r2
      /\ documentId[r1] = documentId[r2]
      /\ pc[r1] = "done" /\ pc[r2] = "done"
      /\ \A r3 \in Requests \ {r1, r2} : pc[r3] = "idle" )
    => DocRows(store, documentId[r1]) \in {NewRows(r1), NewRows(r2)}

\* C3: when an in-flight request is cancelled or stops at an await, the
\* document's stored rows are the complete previous set or the complete new
\* set, never a part of the new set with the old one gone.
C3_StopLeavesCompleteSet ==
  [][\A r \in Requests :
       (pc[r] \in InFlight /\ pc'[r] = "stopped")
         => DocRows(store', documentId[r]) \in {before[r], NewRows(r)}]_vars

\* C4: when a request completes successfully, the document's stored rows are
\* exactly the N rows of that request (indices, contents, vectors), whatever
\* was stored before: N rows and not 2N after a second processing, and the
\* same stored state after a repetition with the same input.
C4_SuccessReplacesAll ==
  [][\A r \in Requests :
       Completes(r) => DocRows(store', documentId[r]) = NewRows(r)]_vars

\* C4 witness: a two-chunk document processed a second time with the same
\* input holds the same two rows as before.
C4_Witness ==
  \E r \in Requests :
    /\ pc[r] = "done"
    /\ Len(chunks[r]) = 2
    /\ before[r] = NewRows(r)
    /\ DocRows(store, documentId[r]) = before[r]
    /\ BagCardinality(DocRows(store, documentId[r])) = 2

\* C5: with the requests on a document running one at a time, failed and
\* stopped ones included, the chunk indices stored for a document are
\* exactly 0..m-1, each once.
C5_IndicesContiguous ==
  \A d \in Documents :
    LET rows == DocRows(store, d)
        m == BagCardinality(rows)
    IN \A i \in 0..(m - 1) :
         /\ Cardinality({row \in DOMAIN rows : row.chunk_index = i}) = 1
         /\ \A row \in DOMAIN rows : row.chunk_index = i => rows[row] = 1

\* C5 witness: a request on a two-chunk text failed after its first insert,
\* and the document holds the one row of index 0.
C5_Witness ==
  \E r \in Requests :
    /\ pc[r] = "failed"
    /\ Len(chunks[r]) = 2
    /\ index[r] = 1
    /\ BagCardinality(DocRows(store, documentId[r])) = 1

\* C6: when a request completes successfully, every index 0..n-1 is stored,
\* and the row of index i holds the i-th chunk of the chunk list and the
\* embedding of that chunk's text.
C6_RowsMatchChunks ==
  [][\A r \in Requests :
       Completes(r) =>
         LET rows == DOMAIN DocRows(store', documentId[r])
             n == Len(chunks[r])
         IN /\ \A i \in 0..(n - 1) : \E row \in rows : row.chunk_index = i
            /\ \A row \in rows :
                 /\ row.chunk_index \in 0..(n - 1)
                 /\ row.content = chunks[r][row.chunk_index + 1]
                 /\ row.embedding = createEmbedding(row.content)]_vars

\* C6 witness: a request on the two-chunk text completed, and the document
\* holds two rows with different contents and different vectors.
C6_Witness ==
  \E r \in Requests :
    /\ pc[r] = "done"
    /\ \E row0, row1 \in DOMAIN DocRows(store, documentId[r]) :
         /\ row0.chunk_index = 0 /\ row1.chunk_index = 1
         /\ row0.content # row1.content
         /\ row0.embedding # row1.embedding

(***************************************************************************)
(* Properties of createChunks.                                             *)
(***************************************************************************)
\* The characters of s that are neither whitespace nor control characters.
NonWhitespaceChars(s) ==
  LET Keep(c) == ~IsWhitespace(c) /\ ~IsControlChar(c)
  IN SelectSeq(s, Keep)

RECURSIVE Concat(_)
Concat(seqs) == IF seqs = <<>> THEN <<>> ELSE Head(seqs) \o Concat(Tail(seqs))

\* The input normalized as the applied createChunks normalizes a paragraph.
NormalizedInput ==
  IF cVariant = "storage" THEN cleanText(cText) ELSE CleanParagraph(cText)

\* C7: every returned chunk has length <= maxChunkLength, joining spaces
\* counted, unless it is one single piece (a sentence or an unsplittable
\* paragraph) that is itself longer than maxChunkLength.
C7_ChunkLengthBounded ==
  cPc = "done" =>
    \A i \in 1..Len(cResult) :
      \/ Len(cResult[i]) <= cMax
      \/ \E j \in 1..Len(cGroups) :
           /\ Len(cGroups[j]) = 1
           /\ Len(cGroups[j][1]) > cMax
           /\ cResult[i] = cGroups[j][1]

\* C8: the non-whitespace characters of the returned chunks, in chunk order,
\* are exactly the non-whitespace characters of the input, in order.
C8_NoContentLoss ==
  cPc = "done" =>
    NonWhitespaceChars(Concat(cResult)) = NonWhitespaceChars(cText)

\* C9: with maxChunkLength = 40 the example text gives exactly the four
\* chunks: paragraph one, then each of the three sentences of paragraph two.
C9_ExampleChunks ==
  (cPc = "done" /\ cText = ExampleText /\ cMax = 40) =>
    cResult = <<ExampleParagraphOne, ExampleSentenceOne, ExampleSentenceTwo,
                ExampleSentenceThree>>

\* C9 witness: createChunks was applied to the example text with limit 40 and
\* returned four chunks.
C9_Witness ==
  cPc = "done" /\ cText = ExampleText /\ cMax = 40 /\ Len(cResult) = 4

\* The input is one paragraph (no blank-line boundary) whose normalized
\* length is exactly maxChunkLength.
ExactLengthParagraph ==
  SplitMatchStart(cText) = 0 /\ Len(NormalizedInput) = cMax

\* C10: a single paragraph whose normalized length is exactly maxChunkLength
\* is returned as exactly one chunk, of that length.
C10_ExactLengthNotSplit ==
  (cPc = "done" /\ ExactLengthParagraph) =>
    /\ Len(cResult) = 1
    /\ Len(cResult[1]) = cMax
    /\ cResult[1] = NormalizedInput

\* C10 witness: a paragraph of exactly maxChunkLength that holds two
\* sentences was returned as one chunk.
C10_Witness ==
  /\ cPc = "done"
  /\ ExactLengthParagraph
  /\ Len(MatchSentences(NormalizedInput, 1)) >= 2
  /\ Len(cResult) = 1

\* C11: on the empty text and on every text of whitespace only (blank lines
\* included), createChunks returns the empty sequence, whatever the limit.
C11_WhitespaceGivesNoChunk ==
  (cPc = "done" /\ \A i \in 1..Len(cText) : IsWhitespace(cText[i])) =>
    cResult = <<>>

\* C11 witness: createChunks was applied to a whitespace-only text that holds
\* a blank-line boundary and returned no chunk.
C11_Witness ==
  /\ cPc = "done"
  /\ \A i \in 1..Len(cText) : IsWhitespace(cText[i])
  /\ SplitMatchStart(cText) # 0
  /\ cResult = <<>>

\* C12: every returned chunk is non-empty and normalized: no control
\* character, no whitespace other than single spaces, and no whitespace at
\* its start or at its end.
C12_ChunksNormalized ==
  cPc = "done" =>
    \A i \in 1..Len(cResult) :
      LET chunk == cResult[i]
      IN /\ Len(chunk) > 0
         /\ \A k \in 1..Len(chunk) :
              /\ ~IsControlChar(chunk[k])
              /\ IsWhitespace(chunk[k]) => chunk[k] = " "
              /\ (k > 1 /\ chunk[k] = " ") => chunk[k - 1] # " "
         /\ chunk[1] # " "
         /\ chunk[Len(chunk)] # " "

(***************************************************************************)
(* Properties of the chat function.                                        *)
(***************************************************************************)
\* The steps a chat request may take, as pairs of handler positions.
ChatOrder ==
  {<<"idle", "embedding">>, <<"embedding", "matching">>,
   <<"matching", "answering">>, <<"answering", "done">>,
   <<"idle", "failed">>, <<"embedding", "failed">>,
   <<"matching", "failed">>, <<"answering", "failed">>}

\* C13: a chat request takes its steps in the order embed, match, assemble
\* context, answer, done; the match query is issued only once the question
\* embedding is there, the answer service is called only once the match
\* returned without error and the context is assembled; a step that ends
\* without its result ends the request in the failed state with the error
\* response, and from the failed state nothing more is called.
C13_FixedStepOrder ==
  [][/\ chatPc' # chatPc => <<chatPc, chatPc'>> \in ChatOrder
     /\ calls'["match"] > calls["match"] =>
          "questionEmbedding" \in DOMAIN chatLocals'
     /\ calls'["answer"] > calls["answer"] =>
          /\ "matchResult" \in DOMAIN chatLocals'
          /\ "error" \notin DOMAIN chatLocals'.matchResult
          /\ "context" \in DOMAIN chatLocals'
     /\ chatPc' = "failed" => chatResponse'.status = 500
     /\ chatPc = "failed" => chatPc' = "failed" /\ calls' = calls
     /\ chatPc' = "done" => calls' = [s \in Services |-> 1]]_vars
C13_Witness ==
  /\ chatPc = "done"
  /\ calls = [s \in Services |-> 1]
  /\ DOMAIN chatLocals =
       {"questionEmbedding", "matchResult", "context", "answer"}

\* C14: the response of a chat request that reached done holds the answer
\* text and the list of the matches used for the context, each with its
\* content and its similarity.
C14_ResponseListsMatches ==
  chatPc = "done" =>
    /\ chatResponse.response = chatLocals.answer
    /\ "sourceSections" \in DOMAIN chatResponse
    /\ LET used == IF "data" \in DOMAIN chatLocals.matchResult
                   THEN chatLocals.matchResult.data ELSE <<>>
       IN /\ Len(chatResponse.sourceSections) = Len(used)
          /\ \A i \in 1..Len(used) :
               /\ chatResponse.sourceSections[i].content = used[i].content
               /\ chatResponse.sourceSections[i].similarity =
                    used[i].similarity

\* The rpc resolved without error and without a row (null or empty list).
ZeroMatches ==
  /\ "matchResult" \in DOMAIN chatLocals
  /\ "error" \notin DOMAIN chatLocals.matchResult
  /\ \/ "data" \notin DOMAIN chatLocals.matchResult
     \/ chatLocals.matchResult.data = <<>>

\* C15: zero matches do not fail the chat request: the answer service is
\* called, with the empty context, and once it answered the request is done
\* with status 200 and that answer; the request fails only when the answer
\* service does.
C15_ZeroMatchesNotAnError ==
  ZeroMatches =>
    /\ "context" \in DOMAIN chatLocals
    /\ chatLocals.context = <<>>
    /\ calls["answer"] = 1
    /\ chatPc \in {"answering", "done", "failed"}
    /\ "answer" \in DOMAIN chatLocals =>
         /\ chatPc = "done"
         /\ chatResponse.status = 200
         /\ chatResponse.response = chatLocals.answer
         /\ chatResponse.debug.chunksFound = 0
    /\ chatPc = "failed" => chatResponse.error = "OpenAI API error"
C15_Witness ==
  /\ ZeroMatches
  /\ "data" \notin DOMAIN chatLocals.matchResult
  /\ chatPc = "done"
  /\ chatResponse.status = 200

\* The matches of the rpc result, when it has a list.
HasMatchList ==
  /\ "matchResult" \in DOMAIN chatLocals
  /\ "data" \in DOMAIN chatLocals.matchResult
MatchList == chatLocals.matchResult.data

\* The stored rows of the requested document whose similarity to the
\* question, as the database computed it, is at least 0.7 (70 hundredths).
Eligible ==
  {row \in DOMAIN store :
     /\ row.document_id = chatBody.documentId
     /\ chatLocals.matchResult.similarity[row.embedding] >= 70}

\* C16: the list the match query returns holds at most 5 chunks, each a
\* stored chunk of the requested document with similarity at least 0.7, in
\* the order similarity descending and, among equal similarities, chunk
\* index ascending; it holds the first rows of that order, so the same
\* similarities over the same store give the same list.
C16_MatchesBoundedRanked ==
  HasMatchList =>
    LET sim == chatLocals.matchResult.similarity
        Returned == {row \in Eligible :
                       \E i \in 1..Len(MatchList) :
                         /\ MatchList[i].document_id = row.document_id
                         /\ MatchList[i].chunk_index = row.chunk_index
                         /\ MatchList[i].content = row.content
                         /\ MatchList[i].similarity = sim[row.embedding]}
    IN /\ Len(MatchList) <= 5
       /\ Len(MatchList) =
            IF Cardinality(Eligible) < 5 THEN Cardinality(Eligible) ELSE 5
       /\ Cardinality(Returned) = Len(MatchList)
       /\ \A i \in 1..Len(MatchList) :
            /\ MatchList[i].document_id = chatBody.documentId
            /\ MatchList[i].similarity >= 70
       /\ \A i, j \in 1..Len(MatchList) :
            i < j =>
              \/ MatchList[i].similarity > MatchList[j].similarity
              \/ /\ MatchList[i].similarity = MatchList[j].similarity
                 /\ MatchList[i].chunk_index < MatchList[j].chunk_index
       /\ \A row \in Eligible \ Returned :
            \A i \in 1..Len(MatchList) :
              \/ MatchList[i].similarity > sim[row.embedding]
              \/ /\ MatchList[i].similarity = sim[row.embedding]
                 /\ MatchList[i].chunk_index < row.chunk_index
C16_Witness ==
  /\ HasMatchList
  /\ Len(MatchList) = 5
  /\ Cardinality(Eligible) = 6
  /\ MatchList[1].similarity > MatchList[2].similarity
  /\ MatchList[2].similarity = MatchList[3].similarity
  /\ MatchList[1].chunk_index > MatchList[2].chunk_index

\* C17: the context is the contents of the matches, in the order of the
\* list, with a blank line between two of them and nothing else: split at
\* its blank lines it gives back exactly the contents, at most 5 of them,
\* and without a match it is empty.
C17_ContextIsMatchContents ==
  "context" \in DOMAIN chatLocals =>
    LET used == IF "data" \in DOMAIN chatLocals.matchResult
                THEN chatLocals.matchResult.data ELSE <<>>
        contents == [i \in 1..Len(used) |-> used[i].content]
    IN /\ Len(used) <= 5
       /\ IF Len(used) = 0 THEN chatLocals.context = <<>>
          ELSE SplitParagraphs(chatLocals.context) = contents
C17_Witness ==
  /\ "context" \in DOMAIN chatLocals
  /\ HasMatchList
  /\ Len(MatchList) = 5
  /\ MatchList[1].chunk_index > MatchList[2].chunk_index
  /\ Len(SplitParagraphs(chatLocals.context)) = 5
  /\ chatPc = "done"

\* C18: nothing is retried.  A chat request calls the embedding service,
\* the matcher and the answer service at most once each; an ingestion
\* request has called the embedding service at most once for each chunk it
\* reached; once a request has failed it calls nothing more.
C18_NoRetry ==
  [][/\ \A s \in Services : calls'[s] <= 1
     /\ chatPc = "failed" => calls' = calls
     /\ \A r \in Requests :
          /\ embedCalls'[r] <= Len(chunks'[r])
          /\ embedCalls'[r] <= index'[r] + 1
          /\ pc[r] = "failed" => embedCalls'[r] = embedCalls[r]]_vars
C18_Witness ==
  \E r \in Requests :
    /\ pc[r] = "failed"
    /\ Len(chunks[r]) = 2
    /\ index[r] = 1
    /\ embedCalls[r] = 2

\* C19: no step of a chat request changes the stored rows or the processed
\* flag of any document, whether the request ends done or failed.
C19_ChatReadOnly ==
  [][store' = store /\ is_processed' = is_processed]_vars
C19_Witness ==
  /\ chatPc = "failed"
  /\ calls = [s \in Services |-> 1]
  /\ store = ChatStore

\* A call of the chat request that ended without its result.
EmbeddingCallFailed ==
  /\ calls["embedding"] = 1
  /\ chatPc # "embedding"
  /\ "questionEmbedding" \notin DOMAIN chatLocals
MatchCallFailed ==
  /\ "matchResult" \in DOMAIN chatLocals
  /\ "error" \in DOMAIN chatLocals.matchResult
AnswerCallFailed ==
  /\ calls["answer"] = 1
  /\ chatPc # "answering"
  /\ "answer" \notin DOMAIN chatLocals

\* C20: a response with status 200 carries the answer of the answer
\* service, and the question embedding, the match query and the answer call
\* of the request all succeeded; when one of the three failed the response
\* has status 500, the error message and no answer text.
C20_SuccessOnlyWhenAllSucceeded ==
  /\ chatResponse.status = 200 =>
       /\ {"questionEmbedding", "matchResult", "answer"}
            \subseteq DOMAIN chatLocals
       /\ "error" \notin DOMAIN chatLocals.matchResult
       /\ chatResponse.response = chatLocals.answer
  /\ (EmbeddingCallFailed \/ MatchCallFailed \/ AnswerCallFailed) =>
       /\ chatResponse.status = 500
       /\ "error" \in DOMAIN chatResponse
       /\ "response" \notin DOMAIN chatResponse
C20_Witness ==
  /\ MatchCallFailed
  /\ chatResponse.status = 500
  /\ chatResponse.error = "match error"

\* The body of the chat request lacks the question, holds the empty
\* question, or lacks the documentId.
QuestionOrDocumentMissing ==
  \/ "question" \notin DOMAIN chatBody
  \/ "question" \in DOMAIN chatBody /\ Len(chatBody.question) = 0
  \/ "documentId" \notin DOMAIN chatBody

\* C21: a chat request without question, with the empty question or without
\* documentId has failed with the error response as soon as it is received,
\* and no call to the embedding service, the matcher or the answer service
\* has been issued for it.
C21_InvalidChatRejectedBeforeCalls ==
  (chatPc # "idle" /\ QuestionOrDocumentMissing) =>
    /\ chatPc = "failed"
    /\ chatResponse.status = 500
    /\ chatResponse.error = "Question and documentId are required"
    /\ calls = [s \in Services |-> 0]
    /\ chatLocals = NoFields
C21_Witness ==
  /\ chatPc = "failed"
  /\ "question" \in DOMAIN chatBody
  /\ Len(chatBody.question) = 0
  /\ "documentId" \in DOMAIN chatBody
  /\ calls["embedding"] = 0

\* C22: an ingestion request whose text gives no chunk (the empty text, a
\* text of whitespace only) does not get past its validation: once its text
\* is known the request has failed with the error response (or was stopped),
\* the rows of its document are those it found and it has not marked the
\* document processed.
C22_BlankTextRejected ==
  \A r \in Requests :
    (pc[r] \notin {"idle", "download"} /\ Len(chunks[r]) = 0) =>
      /\ pc[r] \in {"failed", "stopped"}
      /\ pc[r] = "failed" => response[r].status = 500
      /\ DocRows(store, documentId[r]) = before[r]

\* C23: a request ends with the success response only if every one of its
\* writes succeeded; the last of them sets the processed flag of its
\* document, which no request clears, so the flag is set whenever a request
\* has answered with success.
C23_SuccessMeansAllWritten ==
  \A r \in Requests :
    (pc[r] = "done" /\ response[r].status = 200) =>
      is_processed[documentId[r]]

\* C24: every row of document_embeddings, whichever function stored it,
\* has a document, a sequence index, an embedding and a content of at least
\* one and at most the chunk limit's number of characters.
C24_RowsAreChunks ==
  \A row \in DOMAIN store :
    /\ {"document_id", "chunk_index", "content", "embedding"}
         \subseteq DOMAIN row
    /\ Len(row.content) \in 1..DefaultMaxChunkLength

\* C25: a step of an ingestion request changes nothing of another document:
\* for every document other than the request's own, the stored rows and the
\* processed flag are the same after the step as before it, whatever the
\* other requests are doing.
C25_OtherDocumentsUntouched ==
  [][\A r \in Requests :
       pc'[r] # pc[r] =>
         \A d \in Documents :
           d # documentId'[r] =>
             /\ DocRows(store', d) = DocRows(store, d)
             /\ is_processed'[d] = is_processed[d]]_vars
C25_Witness ==
  \E a, b \in Requests :
    /\ documentId[a] = "docA" /\ pc[a] = "done"
    /\ documentId[b] = "docB" /\ pc[b] = "insert"
    /\ Len(chunks[a]) = 2 /\ Len(chunks[b]) = 2
    /\ DocRows(store, "docA") = NewRows(a)
    /\ BagCardinality(DocRows(store, "docB")) = 1

\* A pushed array of pieces that gives a chunk: not all of its pieces are
\* empty.
GivesChunk(group) == \E k \in 1..Len(group) : Len(group[k]) > 0

\* C26: the buffer is never flushed early: the returned chunks are the
\* pushed arrays that give a chunk, in order, and every returned chunk but
\* the last, joined by a space with the first piece of the chunk after it,
\* is longer than maxChunkLength.
C26_NoEarlyFlush ==
  cPc = "done" =>
    LET emitted == SelectSeq(cGroups, GivesChunk)
    IN /\ Len(emitted) = Len(cResult)
       /\ \A i \in 1..(Len(cResult) - 1) :
            Len(cResult[i]) + 1 + Len(emitted[i + 1][1]) > cMax
C26_Witness ==
  /\ cPc = "done"
  /\ cText = ThreeParagraphs
  /\ cVariant = "process-docx"
  /\ cResult = <<<<"a", " ", "b">>, <<"c">>>>

\* The piece stands whole in the normalized text n: it fills the positions
\* p..q, it starts at the start of n or after a space or a terminator, and
\* it ends at the end of n, before a space, or with its terminators.
StandsWhole(piece, n) ==
  \E p \in 1..Len(n) :
    LET q == p + Len(piece) - 1
    IN /\ q <= Len(n)
       /\ SubSeq(n, p, q) = piece
       /\ p = 1 \/ n[p - 1] = " " \/ IsTerminator(n[p - 1])
       /\ \/ q = Len(n)
          \/ n[q + 1] = " "
          \/ IsTerminator(n[q]) /\ ~IsTerminator(n[q + 1])

\* C27: a piece (sentence, or paragraph without sentence end) longer than
\* maxChunkLength is alone in its chunk, and the chunk is that piece as it
\* stands in the normalized text, not cut.
C27_OversizedPieceAlone ==
  cPc = "done" =>
    LET emitted == SelectSeq(cGroups, GivesChunk)
        normalized == IF cVariant = "storage" THEN cleanText(cText)
                      ELSE CleanParagraph(cText)
    IN \A i \in 1..Len(emitted) :
         \A k \in 1..Len(emitted[i]) :
           Len(emitted[i][k]) > cMax =>
             /\ Len(emitted[i]) = 1
             /\ i <= Len(cResult)
             /\ cResult[i] = emitted[i][1]
             /\ StandsWhole(emitted[i][1], normalized)
C27_Witness ==
  /\ cPc = "done"
  /\ cMax = 2
  /\ cText = <<"a", ".", "a", "a", ".">>
  /\ cResult = <<<<"a", ".">>, <<"a", "a", ".">>>>

\* C28: whenever a document's is_processed flag is true, its stored rows
\* are the complete chunk set (indices 0..n-1, each with its embedding) of
\* a request on that document that has written all its rows (it finished
\* successfully, or only its update of the flag is left).
C28_ProcessedMeansComplete ==
  \A d \in Documents :
    is_processed[d] =>
      \E r \in Requests :
        /\ documentId[r] = d
        /\ pc[r] \in {"update", "done"}
        /\ DocRows(store, d) = NewRows(r)

\* No character of s is a control character.
ControlFree(s) == \A i \in 1..Len(s) : ~IsControlChar(s[i])

\* C29: for a text free of control characters and any maxChunkLength, the
\* createChunks of process-docx and the createChunks of the storage variant
\* return the same chunk sequence.
C29_VariantsAgree ==
  (cPc = "done" /\ cVariant = "process-docx" /\ ControlFree(cText))
    => cResult = createChunksStorage(cText, cMax)

\* C30: at most one chat request of the chat form is in flight: no two
\* submit events are both between the issue of their fetch and the handling
\* of its response or error.
C30_OneRequestInFlight ==
  \A e1, e2 \in Submits :
    (submitPc[e1] = "fetch" /\ submitPc[e2] = "fetch") => e1 = e2

====
